---- MODULE Spec2Model ----
(***************************************************************************)
(* The declaration nodes of include/swift/AST/Decl.h as a state machine.   *)
(* A state is an arena of constructed nodes; a step is one call of a       *)
(* member function on one node.  Pointers and Types are opaque values,     *)
(* Null is the null pointer / the null Type.  The build (assertions        *)
(* compiled in or out) is fixed when the program starts.                   *)
(***************************************************************************)
EXTENDS Integers, Sequences, FiniteSets, TLC

VARIABLES
  decl,      \* the arena: node id -> the node's fields
  ctor,      \* node id -> the arguments its constructor was called with
  NDEBUG,    \* TRUE when assert() expands to nothing (release build)
  aborted,   \* TRUE once a failed assert() has terminated the program
  nalloc,    \* number of DeclAttributes objects allocated in the ASTContext
  last,      \* the most recent call: operation, node, argument, result
  setSince,  \* history: node id -> the argument of the latest setType call
             \* that returned with no overwriteType call after it, or None
  bodyBefore \* history: the Body the latest TopLevelCodeDecl::setBody call
             \* replaced (the empty body while none was made)

vars == <<decl, ctor, NDEBUG, aborted, nalloc, last, setSince, bodyBefore>>

---------------------------------------------------------------------------
(* Bounds of the model *)

MaxPathLen == 2

---------------------------------------------------------------------------
(* Opaque values *)

Null == "null"

Types == {"T1", "T2"}
TypeOrNull == Types \cup {Null}
DeclContexts == {"DC1", "DC2"}
FuncDecls == {"F1", "F2"}
TargetDecls == {"D1", "D2"}
Exprs == {"E1", "E2"}
Stmts == {"S1", "S2"}
FuncExprs == {"B1"}
Identifiers == {"swift", "int"}
SourceLocs == {0, 1}

AccessPathElement == Identifiers \X SourceLocs

RECURSIVE SeqsUpTo(_, _)
SeqsUpTo(S, k) ==
  IF k = 0 THEN {<<>>}
  ELSE LET shorter == SeqsUpTo(S, k - 1)
       IN  shorter \cup {Append(p, e) : p \in {q \in shorter : Len(q) = k - 1}, e \in S}

AccessPaths == SeqsUpTo(AccessPathElement, MaxPathLen)

---------------------------------------------------------------------------
(* The kind registry: enum class DeclKind, its enumerators in the order of *)
(* DeclNodes.def, and the two category ranges.                             *)

DeclKind ==
  [Import |-> 0, Extension |-> 1, PatternBinding |-> 2, TopLevelCode |-> 3,
   Subscript |-> 4, TypeAlias |-> 5, Var |-> 6, Func |-> 7, OneOfElement |-> 8]

ConcreteKinds == {DeclKind[k] : k \in DOMAIN DeclKind}

First_NamedDecl == DeclKind.TypeAlias
Last_NamedDecl == DeclKind.OneOfElement
First_ValueDecl == DeclKind.TypeAlias
Last_ValueDecl == DeclKind.OneOfElement

(* The C++ classes deriving from NamedDecl and ValueDecl: the static types *)
(* on which the members of those layers exist.                             *)
ValueDeclClasses ==
  {DeclKind.TypeAlias, DeclKind.Var, DeclKind.Func, DeclKind.OneOfElement}
NamedDeclClasses == ValueDeclClasses

---------------------------------------------------------------------------
(* Bitfields: DeclBitfields and ValueDeclBitfields overlay one unsigned.   *)

NumDeclBits == 8
NumNamedDeclBits == NumDeclBits
NumValueDeclBits == NumNamedDeclBits + 2

Pow2(k) == 2 ^ k

GetBitfield(word, shift, width) == (word \div Pow2(shift)) % Pow2(width)

SetBitfield(word, shift, width, val) ==
  word - GetBitfield(word, shift, width) * Pow2(shift)
       + (val % Pow2(width)) * Pow2(shift)

BoolBit(flag) == IF flag THEN 1 ELSE 0

NeverUsedAsLValueShift == NumNamedDeclBits
\* HasFixedLifetime laid over the top bit of Kind:
HasFixedLifetimeShift_insideKind == NumNamedDeclBits - 1
HasFixedLifetimeShift == NumNamedDeclBits + 1

---------------------------------------------------------------------------
(* Constructors.  `junk` is the indeterminate content of the storage word  *)
(* before the constructor writes its bitfields.                            *)

EmptyAttrs == 0

Decl_ctor(kind, DC, junk) ==
  [Bits |-> SetBitfield(junk * Pow2(NumDeclBits), 0, NumDeclBits, kind),
   Context |-> DC]

NamedDecl_ctor(K, DC, name, junk) ==
  Decl_ctor(K, DC, junk) @@ [Name |-> name, Attrs |-> EmptyAttrs]

ValueDecl_ctor(K, DC, name, ty, junk) ==
  LET d == NamedDecl_ctor(K, DC, name, junk) @@ [Ty |-> ty]
  IN  [d EXCEPT !.Bits =
         SetBitfield(SetBitfield(@, NeverUsedAsLValueShift, 1, BoolBit(FALSE)),
                     HasFixedLifetimeShift, 1, BoolBit(FALSE))]

ImportDecl_ctor(DC, Path, junk) ==
  Decl_ctor(DeclKind.Import, DC, junk)
    @@ [NumPathElements |-> Len(Path),
        PathBuffer |-> [i \in 1..Len(Path) |-> Path[i]]]

ImportDecl_create(DC, Path, junk) == ImportDecl_ctor(DC, Path, junk)

ExtensionDecl_ctor(ExtendedType, Parent, junk) ==
  Decl_ctor(DeclKind.Extension, Parent, junk) @@ [ExtendedType |-> ExtendedType]

PatternBindingDecl_ctor(E, Parent, junk) ==
  Decl_ctor(DeclKind.PatternBinding, Parent, junk) @@ [Init |-> E]

EmptyBody == [isStmt |-> FALSE, ptr |-> Null]

TopLevelCodeDecl_ctor(Parent, junk) ==
  Decl_ctor(DeclKind.TopLevelCode, Parent, junk) @@ [Body |-> EmptyBody]

SubscriptDecl_ctor(Get, Set, Parent, junk) ==
  Decl_ctor(DeclKind.Subscript, Parent, junk) @@ [Get |-> Get, Set |-> Set]

TypeAliasDecl_ctor(Name, Underlyingty, ty, DC, junk) ==
  ValueDecl_ctor(DeclKind.TypeAlias, DC, Name, ty, junk)
    @@ [UnderlyingTy |-> Underlyingty]

(* GetSet points at a GetSetRecord allocated in the ASTContext: NoRecord   *)
(* is the null pointer, <<r>> a pointer to the record r.                   *)
NoRecord == <<>>

VarDecl_ctor(Name, Ty, DC, junk) ==
  ValueDecl_ctor(DeclKind.Var, DC, Name, Ty, junk) @@ [GetSet |-> NoRecord]

FuncDecl_ctor(Name, Ty, Body, DC, junk) ==
  ValueDecl_ctor(DeclKind.Func, DC, Name, Ty, junk)
    @@ [Body |-> Body, GetOrSetDecl |-> [Pointer |-> Null, Int |-> FALSE]]

OneOfElementDecl_ctor(Name, Ty, ArgumentType, DC, junk) ==
  ValueDecl_ctor(DeclKind.OneOfElement, DC, Name, Ty, junk)
    @@ [ArgumentType |-> ArgumentType]

(* Every constructor call of the bounded input space: the arguments and    *)
(* the node they build.                                                    *)
Junk == 0..3

Constructions ==
       {[args |-> [kind |-> DeclKind.Import, Path |-> P],
         node |-> ImportDecl_create("DC1", P, j)] : P \in AccessPaths, j \in Junk}
  \cup {[args |-> [kind |-> DeclKind.Extension],
         node |-> ExtensionDecl_ctor("T1", "DC1", j)] : j \in Junk}
  \cup {[args |-> [kind |-> DeclKind.PatternBinding],
         node |-> PatternBindingDecl_ctor(E, "DC1", j)] :
            E \in Exprs \cup {Null}, j \in Junk}
  \cup {[args |-> [kind |-> DeclKind.TopLevelCode],
         node |-> TopLevelCodeDecl_ctor("DC1", j)] : j \in Junk}
  \cup {[args |-> [kind |-> DeclKind.Subscript, Set |-> S],
         node |-> SubscriptDecl_ctor("F1", S, "DC1", j)] :
            S \in {Null, "F2"}, j \in Junk}
  \cup {[args |-> [kind |-> DeclKind.TypeAlias],
         node |-> TypeAliasDecl_ctor("x", U, T, "DC1", j)] :
            U \in TypeOrNull, T \in TypeOrNull, j \in Junk}
  \cup {[args |-> [kind |-> DeclKind.Var],
         node |-> VarDecl_ctor("x", T, "DC1", j)] : T \in TypeOrNull, j \in Junk}
  \cup {[args |-> [kind |-> DeclKind.Func],
         node |-> FuncDecl_ctor("x", T, B, "DC1", j)] :
            T \in TypeOrNull, B \in FuncExprs \cup {Null}, j \in Junk}
  \cup {[args |-> [kind |-> DeclKind.OneOfElement],
         node |-> OneOfElementDecl_ctor("x", T, A, "DC1", j)] :
            T \in TypeOrNull, A \in {Null, "T1"}, j \in Junk}

None == "none"

NoCall == [op |-> "ctor", node |-> 0, arg |-> Null, ret |-> Null, fault |-> FALSE]

Init ==
  /\ \E c \in Constructions :
       /\ decl = (1 :> c.node)
       /\ ctor = (1 :> c.args)
  /\ setSince = (1 :> None)
  /\ bodyBefore = EmptyBody
  /\ NDEBUG \in BOOLEAN
  /\ aborted = FALSE
  /\ nalloc = 0
  /\ last = NoCall

(* Two named declarations in one ASTContext, their types not yet resolved. *)
NamedConstructions ==
  {[args |-> [kind |-> DeclKind.TypeAlias],
    node |-> TypeAliasDecl_ctor("x", Null, Null, "DC1", 0)],
   [args |-> [kind |-> DeclKind.Var],
    node |-> VarDecl_ctor("x", Null, "DC1", 0)],
   [args |-> [kind |-> DeclKind.Func],
    node |-> FuncDecl_ctor("x", Null, Null, "DC1", 0)],
   [args |-> [kind |-> DeclKind.OneOfElement],
    node |-> OneOfElementDecl_ctor("x", Null, Null, "DC1", 0)]}

InitNamed ==
  /\ \E c1 \in NamedConstructions, c2 \in NamedConstructions :
       /\ decl = (1 :> c1.node) @@ (2 :> c2.node)
       /\ ctor = (1 :> c1.args) @@ (2 :> c2.args)
  /\ setSince = (1 :> None) @@ (2 :> None)
  /\ bodyBefore = EmptyBody
  /\ NDEBUG \in BOOLEAN
  /\ aborted = FALSE
  /\ nalloc = 0
  /\ last = NoCall

---------------------------------------------------------------------------
(* Calls *)

Nodes == DOMAIN decl

IsA(n, classes) == ctor[n].kind \in classes

Call(op, n, arg, ret) ==
  [op |-> op, node |-> n, arg |-> arg, ret |-> ret, fault |-> FALSE]

(* The history of the type slot: a setType call that returns records its   *)
(* argument, an overwriteType call clears it.                              *)
Recorded(op, n, arg) ==
  CASE op = "setType" -> [setSince EXCEPT ![n] = arg]
    [] op = "overwriteType" -> [setSince EXCEPT ![n] = None]
    [] OTHER -> setSince

(* The history of the body slot: a setBody call records the Body it       *)
(* replaces.                                                               *)
Replaced(op, n) ==
  IF op \in {"setBody(Expr)", "setBody(Stmt)"} THEN decl[n].Body ELSE bodyBefore

(* A call that returns: the node is left as `node`, the result is `ret`. *)
Return(op, n, arg, ret, node) ==
  /\ ~aborted
  /\ decl' = [decl EXCEPT ![n] = node]
  /\ last' = Call(op, n, arg, ret)
  /\ setSince' = Recorded(op, n, arg)
  /\ bodyBefore' = Replaced(op, n)
  /\ UNCHANGED <<ctor, NDEBUG, aborted, nalloc>>

(* A call whose assert() fails in a build with assertions: abort(). *)
Fatal(op, n, arg) ==
  /\ ~aborted
  /\ aborted' = TRUE
  /\ last' = [Call(op, n, arg, Null) EXCEPT !.fault = TRUE]
  /\ UNCHANGED <<decl, ctor, NDEBUG, nalloc, setSince, bodyBefore>>

(* assert(cond); followed by a body that leaves `node` and returns `ret`. *)
Checked(cond, op, n, arg, ret, node) ==
  IF ~NDEBUG /\ ~cond THEN Fatal(op, n, arg) ELSE Return(op, n, arg, ret, node)

(* Decl *)

getKind(n) == GetBitfield(decl[n].Bits, 0, NumDeclBits)

getDeclContext(n) == decl[n].Context

setDeclContext(n, DC) ==
  Return("setDeclContext", n, DC, Null, [decl[n] EXCEPT !.Context = DC])

(* classof: the tag tests behind isa<>, cast<> and dyn_cast<>. *)

Decl_classof(n) == TRUE
ImportDecl_classof(n) == getKind(n) = DeclKind.Import
ExtensionDecl_classof(n) == getKind(n) = DeclKind.Extension
PatternBindingDecl_classof(n) == getKind(n) = DeclKind.PatternBinding
TopLevelCodeDecl_classof(n) == getKind(n) = DeclKind.TopLevelCode
SubscriptDecl_classof(n) == getKind(n) = DeclKind.Subscript
TypeAliasDecl_classof(n) == getKind(n) = DeclKind.TypeAlias
VarDecl_classof(n) == getKind(n) = DeclKind.Var
FuncDecl_classof(n) == getKind(n) = DeclKind.Func
OneOfElementDecl_classof(n) == getKind(n) = DeclKind.OneOfElement

(* The range test with its lower bound excluded. *)
NamedDecl_classof_exclusive(n) ==
  getKind(n) > First_NamedDecl /\ getKind(n) <= Last_NamedDecl

NamedDecl_classof(n) ==
  getKind(n) >= First_NamedDecl /\ getKind(n) <= Last_NamedDecl

ValueDecl_classof(n) ==
  getKind(n) >= First_ValueDecl /\ getKind(n) <= Last_ValueDecl

Classes ==
  {"Decl", "ImportDecl", "ExtensionDecl", "PatternBindingDecl",
   "TopLevelCodeDecl", "SubscriptDecl", "NamedDecl", "ValueDecl",
   "TypeAliasDecl", "VarDecl", "FuncDecl", "OneOfElementDecl"}

classof(C, n) ==
  CASE C = "Decl" -> Decl_classof(n)
    [] C = "ImportDecl" -> ImportDecl_classof(n)
    [] C = "ExtensionDecl" -> ExtensionDecl_classof(n)
    [] C = "PatternBindingDecl" -> PatternBindingDecl_classof(n)
    [] C = "TopLevelCodeDecl" -> TopLevelCodeDecl_classof(n)
    [] C = "SubscriptDecl" -> SubscriptDecl_classof(n)
    [] C = "NamedDecl" -> NamedDecl_classof(n)
    [] C = "ValueDecl" -> ValueDecl_classof(n)
    [] C = "TypeAliasDecl" -> TypeAliasDecl_classof(n)
    [] C = "VarDecl" -> VarDecl_classof(n)
    [] C = "FuncDecl" -> FuncDecl_classof(n)
    [] C = "OneOfElementDecl" -> OneOfElementDecl_classof(n)

(* isa<C>(D): a type test of node n against class C. *)
isa(n, C) == Return("isa", n, C, classof(C, n), decl[n])

(* ImportDecl *)

getPathBuffer(n) == decl[n].PathBuffer

(* The array view one element short. *)
getAccessPath_dropsLast(n) ==
  [i \in 1..(decl[n].NumPathElements - 1) |-> getPathBuffer(n)[i]]

getAccessPath(n) ==
  [i \in 1..decl[n].NumPathElements |-> getPathBuffer(n)[i]]

(* PatternBindingDecl *)

getInit(n) == decl[n].Init

setInit(n, E) ==
  /\ IsA(n, {DeclKind.PatternBinding})
  /\ Return("setInit", n, E, Null, [decl[n] EXCEPT !.Init = E])

(* TopLevelCodeDecl: Body is a PointerUnion<Expr*, Stmt*>. *)

TopLevelCodeDecl_getBody(n) == decl[n].Body

setBody_Expr(n, E) ==
  /\ IsA(n, {DeclKind.TopLevelCode})
  /\ Return("setBody(Expr)", n, E, Null,
            [decl[n] EXCEPT !.Body = [isStmt |-> FALSE, ptr |-> E]])

(* setBody of a statement storing the pointer without switching the      *)
(* union to the statement alternative.                                     *)
setBody_Stmt_keepsTag(n, S) ==
  /\ IsA(n, {DeclKind.TopLevelCode})
  /\ Return("setBody(Stmt)", n, S, Null,
            [decl[n] EXCEPT !.Body = [isStmt |-> @.isStmt, ptr |-> S]])

setBody_Stmt(n, S) ==
  /\ IsA(n, {DeclKind.TopLevelCode})
  /\ Return("setBody(Stmt)", n, S, Null,
            [decl[n] EXCEPT !.Body = [isStmt |-> TRUE, ptr |-> S]])

(* SubscriptDecl *)

SubscriptDecl_getGetter(n) == decl[n].Get
SubscriptDecl_getSetter(n) == decl[n].Set

(* NamedDecl *)

(* getAttrs() ignoring the node's own store. *)
getAttrs_alwaysShared(n) == EmptyAttrs

getAttrs(n) == decl[n].Attrs

getMutableAttrs(n) ==
  /\ IsA(n, NamedDeclClasses)
  /\ IF decl[n].Attrs = EmptyAttrs
     THEN /\ ~aborted
          /\ nalloc' = nalloc + 1
          /\ decl' = [decl EXCEPT ![n].Attrs = nalloc + 1]
          /\ last' = Call("getMutableAttrs", n, Null, nalloc + 1)
          /\ UNCHANGED <<ctor, NDEBUG, aborted, setSince, bodyBefore>>
     ELSE Return("getMutableAttrs", n, Null, decl[n].Attrs, decl[n])

(* ValueDecl *)

hasType(n) == decl[n].Ty # Null

(* setType without its assert(). *)
setType_unchecked(n, T) ==
  /\ IsA(n, ValueDeclClasses)
  /\ Return("setType", n, T, Null, [decl[n] EXCEPT !.Ty = T])

(* getType without its assert(). *)
getType_unchecked(n) ==
  /\ IsA(n, ValueDeclClasses)
  /\ Return("getType", n, Null, decl[n].Ty, decl[n])

getType(n) ==
  /\ IsA(n, ValueDeclClasses)
  /\ Checked(decl[n].Ty # Null, "getType", n, Null, decl[n].Ty, decl[n])

setType(n, T) ==
  /\ IsA(n, ValueDeclClasses)
  /\ Checked(decl[n].Ty = Null, "setType", n, T, Null, [decl[n] EXCEPT !.Ty = T])

overwriteType(n, T) ==
  /\ IsA(n, ValueDeclClasses)
  /\ Return("overwriteType", n, T, Null, [decl[n] EXCEPT !.Ty = T])

setHasFixedLifetime(n, flag) ==
  /\ IsA(n, ValueDeclClasses)
  /\ Return("setHasFixedLifetime", n, flag, Null,
            [decl[n] EXCEPT !.Bits =
               SetBitfield(@, HasFixedLifetimeShift, 1, BoolBit(flag))])

setNeverUsedAsLValue(n, flag) ==
  /\ IsA(n, ValueDeclClasses)
  /\ Return("setNeverUsedAsLValue", n, flag, Null,
            [decl[n] EXCEPT !.Bits =
               SetBitfield(@, NeverUsedAsLValueShift, 1, BoolBit(flag))])

hasFixedLifetime(n) == GetBitfield(decl[n].Bits, HasFixedLifetimeShift, 1) = 1

isNeverUsedAsLValue(n) ==
  GetBitfield(decl[n].Bits, NeverUsedAsLValueShift, 1) = 1

(* TypeAliasDecl *)

hasUnderlyingType(n) == decl[n].UnderlyingTy # Null

getUnderlyingType(n) ==
  /\ IsA(n, {DeclKind.TypeAlias})
  /\ Checked(decl[n].UnderlyingTy # Null, "getUnderlyingType", n, Null,
             decl[n].UnderlyingTy, decl[n])

(* setUnderlyingType without its assert(). *)
setUnderlyingType_unchecked(n, T) ==
  /\ IsA(n, {DeclKind.TypeAlias})
  /\ Return("setUnderlyingType", n, T, Null, [decl[n] EXCEPT !.UnderlyingTy = T])

setUnderlyingType(n, T) ==
  /\ IsA(n, {DeclKind.TypeAlias})
  /\ Checked(decl[n].UnderlyingTy = Null, "setUnderlyingType", n, T, Null,
             [decl[n] EXCEPT !.UnderlyingTy = T])

(* overwriteUnderlyingType writing the ValueDecl type slot as well. *)
overwriteUnderlyingType_sharedSlot(n, T) ==
  /\ IsA(n, {DeclKind.TypeAlias})
  /\ Return("overwriteUnderlyingType", n, T, Null,
            [decl[n] EXCEPT !.UnderlyingTy = T, !.Ty = T])

overwriteUnderlyingType(n, T) ==
  /\ IsA(n, {DeclKind.TypeAlias})
  /\ Return("overwriteUnderlyingType", n, T, Null,
            [decl[n] EXCEPT !.UnderlyingTy = T])

(* VarDecl *)

isProperty(n) == decl[n].GetSet # NoRecord

setProperty(n, Get, Set) ==
  /\ IsA(n, {DeclKind.Var})
  /\ Return("setProperty", n, <<Get, Set>>, Null,
            [decl[n] EXCEPT !.GetSet = <<[Get |-> Get, Set |-> Set]>>])

(* getGetter() reading the record's Set field. *)
VarDecl_getGetter_readsSet(n) ==
  IF decl[n].GetSet # NoRecord THEN decl[n].GetSet[1].Set ELSE Null

VarDecl_getGetter(n) ==
  IF decl[n].GetSet # NoRecord THEN decl[n].GetSet[1].Get ELSE Null

VarDecl_getSetter(n) ==
  IF decl[n].GetSet # NoRecord THEN decl[n].GetSet[1].Set ELSE Null

(* FuncDecl: GetOrSetDecl is a PointerIntPair<Decl*, 1, bool>. *)

FuncDecl_getBody(n) == decl[n].Body

FuncDecl_setBody(n, NewBody) ==
  /\ IsA(n, {DeclKind.Func})
  /\ Return("setBody(FuncExpr)", n, NewBody, Null, [decl[n] EXCEPT !.Body = NewBody])

(* makeSetter without its setInt(true). *)
makeSetter_keepsRole(n, D) ==
  /\ IsA(n, {DeclKind.Func})
  /\ Return("makeSetter", n, D, Null,
            [decl[n] EXCEPT !.GetOrSetDecl = [Pointer |-> D, Int |-> @.Int]])

(* makeGetter without its setInt(false). *)
makeGetter_keepsRole(n, D) ==
  /\ IsA(n, {DeclKind.Func})
  /\ Return("makeGetter", n, D, Null,
            [decl[n] EXCEPT !.GetOrSetDecl = [Pointer |-> D, Int |-> @.Int]])

makeGetter(n, D) ==
  /\ IsA(n, {DeclKind.Func})
  /\ Return("makeGetter", n, D, Null,
            [decl[n] EXCEPT !.GetOrSetDecl = [Pointer |-> D, Int |-> FALSE]])

makeSetter(n, D) ==
  /\ IsA(n, {DeclKind.Func})
  /\ Return("makeSetter", n, D, Null,
            [decl[n] EXCEPT !.GetOrSetDecl = [Pointer |-> D, Int |-> TRUE]])

getGetterDecl(n) ==
  IF decl[n].GetOrSetDecl.Int THEN Null ELSE decl[n].GetOrSetDecl.Pointer

getSetterDecl(n) ==
  IF decl[n].GetOrSetDecl.Int THEN decl[n].GetOrSetDecl.Pointer ELSE Null

(* The const accessors that hold no assert(): calling one returns its      *)
(* value.  Members(n) are those the node's class declares or inherits.     *)

Members(n) ==
  {"getKind", "getDeclContext"}
  \cup (IF IsA(n, {DeclKind.Import}) THEN {"getAccessPath"} ELSE {})
  \cup (IF IsA(n, {DeclKind.PatternBinding}) THEN {"getInit"} ELSE {})
  \cup (IF IsA(n, {DeclKind.TopLevelCode}) THEN {"getBody"} ELSE {})
  \cup (IF IsA(n, {DeclKind.Subscript}) THEN {"getGetter", "getSetter"} ELSE {})
  \cup (IF IsA(n, NamedDeclClasses) THEN {"getAttrs"} ELSE {})
  \cup (IF IsA(n, ValueDeclClasses)
        THEN {"hasType", "hasFixedLifetime", "isNeverUsedAsLValue"} ELSE {})
  \cup (IF IsA(n, {DeclKind.TypeAlias}) THEN {"hasUnderlyingType"} ELSE {})
  \cup (IF IsA(n, {DeclKind.Var})
        THEN {"isProperty", "getGetter", "getSetter"} ELSE {})
  \cup (IF IsA(n, {DeclKind.Func})
        THEN {"getBody", "getGetterDecl", "getSetterDecl"} ELSE {})

Value(n, m) ==
  CASE m = "getKind" -> getKind(n)
    [] m = "getDeclContext" -> getDeclContext(n)
    [] m = "getAccessPath" -> getAccessPath(n)
    [] m = "getInit" -> getInit(n)
    [] m = "getBody" /\ IsA(n, {DeclKind.TopLevelCode}) -> TopLevelCodeDecl_getBody(n)
    [] m = "getBody" /\ IsA(n, {DeclKind.Func}) -> FuncDecl_getBody(n)
    [] m = "getGetter" /\ IsA(n, {DeclKind.Subscript}) -> SubscriptDecl_getGetter(n)
    [] m = "getSetter" /\ IsA(n, {DeclKind.Subscript}) -> SubscriptDecl_getSetter(n)
    [] m = "getGetter" /\ IsA(n, {DeclKind.Var}) -> VarDecl_getGetter(n)
    [] m = "getSetter" /\ IsA(n, {DeclKind.Var}) -> VarDecl_getSetter(n)
    [] m = "getAttrs" -> getAttrs(n)
    [] m = "hasType" -> hasType(n)
    [] m = "hasFixedLifetime" -> hasFixedLifetime(n)
    [] m = "isNeverUsedAsLValue" -> isNeverUsedAsLValue(n)
    [] m = "hasUnderlyingType" -> hasUnderlyingType(n)
    [] m = "isProperty" -> isProperty(n)
    [] m = "getGetterDecl" -> getGetterDecl(n)
    [] m = "getSetterDecl" -> getSetterDecl(n)

Read(n, m) == Return(m, n, Null, Value(n, m), decl[n])

---------------------------------------------------------------------------
(* The program: any call on any constructed node whose class has the       *)
(* member, until a failed assert() aborts it.                              *)

Next ==
  \/ \E n \in Nodes, DC \in DeclContexts : setDeclContext(n, DC)
  \/ \E n \in Nodes, C \in Classes : isa(n, C)
  \/ \E n \in Nodes : \E m \in Members(n) : Read(n, m)
  \/ \E n \in Nodes : getMutableAttrs(n)
  \/ \E n \in Nodes : getType(n)
  \/ \E n \in Nodes, T \in TypeOrNull : setType(n, T)
  \/ \E n \in Nodes, T \in TypeOrNull : overwriteType(n, T)
  \/ \E n \in Nodes, flag \in BOOLEAN : setHasFixedLifetime(n, flag)
  \/ \E n \in Nodes, flag \in BOOLEAN : setNeverUsedAsLValue(n, flag)
  \/ \E n \in Nodes, E \in Exprs \cup {Null} : setInit(n, E)
  \/ \E n \in Nodes, E \in Exprs \cup {Null} : setBody_Expr(n, E)
  \/ \E n \in Nodes, S \in Stmts \cup {Null} : setBody_Stmt(n, S)
  \/ \E n \in Nodes : getUnderlyingType(n)
  \/ \E n \in Nodes, T \in TypeOrNull : setUnderlyingType(n, T)
  \/ \E n \in Nodes, T \in TypeOrNull : overwriteUnderlyingType(n, T)
  \/ \E n \in Nodes, G \in FuncDecls \cup {Null}, S \in FuncDecls \cup {Null} :
       setProperty(n, G, S)
  \/ \E n \in Nodes, B \in FuncExprs \cup {Null} : FuncDecl_setBody(n, B)
  \/ \E n \in Nodes, D \in TargetDecls \cup {Null} : makeGetter(n, D)
  \/ \E n \in Nodes, D \in TargetDecls \cup {Null} : makeSetter(n, D)

Spec == Init /\ [][Next]_vars

(* The calls of the Decl and NamedDecl layers alone, on two named nodes:   *)
(* Attrs is private to NamedDecl, no other class's member can reach it.    *)
NextNamed ==
  \/ \E n \in Nodes, DC \in DeclContexts : setDeclContext(n, DC)
  \/ \E n \in Nodes, C \in Classes : isa(n, C)
  \/ \E n \in Nodes : \E m \in Members(n) : Read(n, m)
  \/ \E n \in Nodes : getMutableAttrs(n)

SpecNamed == InitNamed /\ [][NextNamed]_vars

---------------------------------------------------------------------------
(* Properties *)

(* C1, as stated: on every Valued node, for every sequence of calls, a     *)
(* setType call that follows an earlier setType with no overwriteType in   *)
(* between fails; overwriteType always succeeds, and a getType read after  *)
(* it returns exactly the value that was passed to it.                     *)
C1_SetTypeTwiceAlwaysFails ==
  [][/\ (last'.op = "setType" /\ setSince[last'.node] # None) => last'.fault
     /\ last'.op = "overwriteType" => ~last'.fault
     /\ (last.op = "overwriteType" /\ last'.op = "getType"
          /\ last'.node = last.node)
          => (~last'.fault /\ last'.ret = last.arg)]_vars

(* C1, amended: in a build with assertions, a setType call on a Valued     *)
(* node whose type is set (non-null) fails and leaves the node unchanged,  *)
(* in particular one that follows an earlier setType of a non-null type    *)
(* with no overwriteType in between.  overwriteType succeeds whether the   *)
(* type is unset or set and leaves exactly the passed value in the slot; a *)
(* getType read after it returns that value when it is non-null.           *)
C1_SetTypeOnceWithAssertions ==
  [][/\ (last'.op = "setType" /\ ~NDEBUG /\ hasType(last'.node))
          => (last'.fault /\ decl' = decl)
     /\ (last'.op = "setType" /\ ~NDEBUG /\ setSince[last'.node] \in Types)
          => last'.fault
     /\ last'.op = "overwriteType"
          => /\ ~last'.fault
             /\ decl'[last'.node].Ty = last'.arg
     /\ (last.op = "overwriteType" /\ last'.op = "getType"
          /\ last'.node = last.node /\ last.arg # Null)
          => (~last'.fault /\ last'.ret = last.arg)]_vars

(* C1 witness: a second setType, after one that set a type, has failed.    *)
C1_Witness ==
  /\ last.op = "setType"
  /\ last.fault
  /\ setSince[last.node] \in Types

(* C2: a fresh Func is neither getter nor setter; after makeGetter(D) it   *)
(* is the getter of D and no setter; after makeSetter(D2) it is the setter *)
(* of D2 and no getter; it never reports both roles.                       *)
C2_GetterSetterExclusive ==
  \A n \in Nodes : IsA(n, {DeclKind.Func}) =>
    /\ last.op = "ctor" => (getGetterDecl(n) = Null /\ getSetterDecl(n) = Null)
    /\ (last.op = "makeGetter" /\ last.node = n)
         => (getGetterDecl(n) = last.arg /\ getSetterDecl(n) = Null)
    /\ (last.op = "makeSetter" /\ last.node = n)
         => (getSetterDecl(n) = last.arg /\ getGetterDecl(n) = Null)
    /\ ~(getGetterDecl(n) # Null /\ getSetterDecl(n) # Null)

(* C2 witness: makeSetter(D2) has just been called on a Func.              *)
C2_Witness ==
  /\ last.op = "makeSetter"
  /\ last.arg = "D2"
  /\ getSetterDecl(last.node) = "D2"

(* The state part and the step part of C3. *)
C3_State ==
  \A n \in Nodes : IsA(n, {DeclKind.Var}) =>
    /\ last.op = "ctor" => ~isProperty(n)
    /\ ~isProperty(n) => (VarDecl_getGetter(n) = Null /\ VarDecl_getSetter(n) = Null)
    /\ (last.op = "setProperty" /\ last.node = n)
         => /\ isProperty(n)
            /\ VarDecl_getGetter(n) = last.arg[1]
            /\ VarDecl_getSetter(n) = last.arg[2]

C3_Step ==
  \A n \in Nodes : IsA(n, {DeclKind.Var}) =>
    /\ isProperty(n) => isProperty(n)'
    /\ (~isProperty(n) /\ isProperty(n)') => last'.op = "setProperty"

(* C3: a Var is no property and has no getter or setter until setProperty  *)
(* is called; after setProperty(G, S) it is a property with getter G and   *)
(* setter S; once a property it stays one under every later call.          *)
C3_PropertyIsOneWay == []C3_State /\ [][C3_Step]_vars

(* C3 witness: setProperty(F1, F2) has just promoted a Var.                *)
C3_Witness ==
  /\ last.op = "setProperty"
  /\ last.arg = <<"F1", "F2">>
  /\ isProperty(last.node)

(* C4: classof of each of the nine concrete classes succeeds on exactly    *)
(* the nodes of that kind; NamedDecl::classof succeeds exactly on          *)
(* TypeAlias, Var, Func and OneOfElement nodes; every node that passes     *)
(* ValueDecl::classof passes NamedDecl::classof.                           *)
C4_ClassofFollowsKind ==
  \A n \in Nodes :
    LET k == ctor[n].kind
        kindOf == [ImportDecl |-> DeclKind.Import,
                   ExtensionDecl |-> DeclKind.Extension,
                   PatternBindingDecl |-> DeclKind.PatternBinding,
                   TopLevelCodeDecl |-> DeclKind.TopLevelCode,
                   SubscriptDecl |-> DeclKind.Subscript,
                   TypeAliasDecl |-> DeclKind.TypeAlias,
                   VarDecl |-> DeclKind.Var,
                   FuncDecl |-> DeclKind.Func,
                   OneOfElementDecl |-> DeclKind.OneOfElement]
        named == {DeclKind.TypeAlias, DeclKind.Var, DeclKind.Func,
                  DeclKind.OneOfElement}
        expected(C) == CASE C = "NamedDecl" -> k \in named
                         [] C = "ValueDecl" -> k \in named
                         [] C = "Decl" -> TRUE
                         [] OTHER -> k = kindOf[C]
    IN  /\ \A C \in DOMAIN kindOf : classof(C, n) <=> (k = kindOf[C])
        /\ NamedDecl_classof(n) <=> (k \in named)
        /\ ValueDecl_classof(n) => NamedDecl_classof(n)
        /\ (last.op = "isa" /\ last.node = n) => (last.ret <=> expected(last.arg))

(* C4 witness: a Var node has passed the NamedDecl test.                   *)
C4_Witness ==
  /\ last.op = "isa"
  /\ last.arg = "NamedDecl"
  /\ ctor[last.node].kind = DeclKind.Var
  /\ last.ret

(* C5: getKind() is the kind the node was constructed with, in every       *)
(* reachable state, whichever mutators have run.                           *)
C5_KindIsFixed == \A n \in Nodes : getKind(n) = ctor[n].kind

(* C5 witness: both usage flags of a Func have been set.                   *)
C5_Witness ==
  /\ last.op = "setHasFixedLifetime"
  /\ hasFixedLifetime(last.node)
  /\ isNeverUsedAsLValue(last.node)
  /\ getKind(last.node) = DeclKind.Func

(* C6: the access path read back from an Import node is the path it was    *)
(* created with, element for element and of the same length, in every      *)
(* state of the node.                                                      *)
C6_AccessPathRoundTrip ==
  \A n \in Nodes : IsA(n, {DeclKind.Import}) =>
    LET P == ctor[n].Path
    IN  /\ Len(getAccessPath(n)) = Len(P)
        /\ \A i \in 1..Len(P) : getAccessPath(n)[i] = P[i]
        /\ (last.op = "getAccessPath" /\ last.node = n) => last.ret = P

(* C6 witness: a two-element path read back after the node was reparented. *)
C6_Witness ==
  /\ last.op = "getAccessPath"
  /\ ctor[last.node].Path = << <<"swift", 0>>, <<"int", 1>> >>
  /\ last.ret = << <<"swift", 0>>, <<"int", 1>> >>
  /\ decl[last.node].Context = "DC2"

(* The state part and the step part of C7. *)
C7_State ==
  \A n \in Nodes :
    /\ last.op = "ctor" => getAttrs(n) = EmptyAttrs
    /\ \A m \in Nodes \ {n} :
         getAttrs(n) = getAttrs(m) => getAttrs(n) = EmptyAttrs
    /\ (last.op = "getMutableAttrs" /\ last.node = n)
         => /\ last.ret # EmptyAttrs
            /\ getAttrs(n) = last.ret
            /\ \A m \in Nodes \ {n} : getAttrs(m) # last.ret

C7_Step ==
  \A n \in Nodes :
    /\ getAttrs(n) # EmptyAttrs => getAttrs(n)' = getAttrs(n)
    /\ getAttrs(n)' # getAttrs(n)
         => (last'.op = "getMutableAttrs" /\ last'.node = n)
    /\ (last'.op = "getMutableAttrs" /\ last'.node # n) => decl'[n] = decl[n]

(* C7: nodes on which getMutableAttrs() was never called share the one     *)
(* empty attribute set; the first getMutableAttrs() on a node gives it a   *)
(* store of its own, which getAttrs() and every later getMutableAttrs()    *)
(* return, which no other node has, and which leaves the other nodes'      *)
(* attribute sets as they were.                                            *)
C7_AttrsCopyOnFirstWrite == []C7_State /\ [][C7_Step]_vars

(* C7 witness: node 1 has its own store, node 2 still the shared one.      *)
C7_Witness ==
  /\ last.op = "getMutableAttrs"
  /\ last.node = 1
  /\ getAttrs(1) # EmptyAttrs
  /\ getAttrs(2) = EmptyAttrs

(* C8, as stated: whatever D is passed to makeGetter/makeSetter, null      *)
(* included, the setter discriminant is never set while the target is      *)
(* absent.                                                                 *)
C8_NoRoleWithoutTarget ==
  \A n \in Nodes : IsA(n, {DeclKind.Func}) =>
    (decl[n].GetOrSetDecl.Pointer = Null => ~decl[n].GetOrSetDecl.Int)

(* The state part and the step part of C8 as amended. *)
C8_State ==
  \A n \in Nodes : IsA(n, {DeclKind.Func}) =>
    LET p == decl[n].GetOrSetDecl
    IN  /\ (last.op \in {"makeGetter", "makeSetter"} /\ last.node = n
             /\ last.arg # Null)
             => (p.Pointer = last.arg /\ p.Int = (last.op = "makeSetter"))
        /\ p.Pointer = Null
             => (getGetterDecl(n) = Null /\ getSetterDecl(n) = Null)
        /\ p.Pointer # Null
             => \/ ~p.Int /\ getGetterDecl(n) = p.Pointer /\ getSetterDecl(n) = Null
                \/ p.Int /\ getSetterDecl(n) = p.Pointer /\ getGetterDecl(n) = Null

C8_Step ==
  \A n \in Nodes : IsA(n, {DeclKind.Func}) =>
    LET p == decl[n].GetOrSetDecl
        q == decl'[n].GetOrSetDecl
    IN  (q.Pointer = Null /\ q.Int /\ q # p)
          => (last'.op = "makeSetter" /\ last'.arg = Null)

(* C8, amended: after makeGetter(D)/makeSetter(D) with a non-null D the    *)
(* field holds exactly the target D with exactly the role of the call; a   *)
(* present target has exactly one role; the discriminant is set with the   *)
(* target absent only by makeSetter(null), and whenever the target is      *)
(* absent both getGetterDecl() and getSetterDecl() report absent.          *)
C8_OneRolePerTarget == []C8_State /\ [][C8_Step]_vars

(* C8 witness: makeSetter(null) has left the discriminant set, no target.  *)
C8_Witness ==
  /\ last.op = "makeSetter"
  /\ last.arg = Null
  /\ decl[last.node].GetOrSetDecl.Int
  /\ getSetterDecl(last.node) = Null
  /\ getGetterDecl(last.node) = Null

(* C9, as stated: a setType call on a node whose type is set, and a        *)
(* setUnderlyingType call on an alias whose underlying type is set, is     *)
(* fatal and leaves the node as it was.                                    *)
C9_ViolationAlwaysFatal ==
  [][/\ (last'.op = "setType" /\ hasType(last'.node))
          => (last'.fault /\ decl' = decl)
     /\ (last'.op = "setUnderlyingType" /\ hasUnderlyingType(last'.node))
          => (last'.fault /\ decl' = decl)]_vars

(* C9, amended: in a build with assertions those two calls are fatal and   *)
(* leave the node as it was; in a build without assertions (NDEBUG) they   *)
(* return and replace the (underlying) type, changing no other field.      *)
C9_ViolationFatalWithAssertions ==
  [][/\ (last'.op = "setType" /\ hasType(last'.node))
          => IF NDEBUG
             THEN /\ ~last'.fault
                  /\ decl' = [decl EXCEPT ![last'.node].Ty = last'.arg]
             ELSE last'.fault /\ decl' = decl
     /\ (last'.op = "setUnderlyingType" /\ hasUnderlyingType(last'.node))
          => IF NDEBUG
             THEN /\ ~last'.fault
                  /\ decl' = [decl EXCEPT ![last'.node].UnderlyingTy = last'.arg]
             ELSE last'.fault /\ decl' = decl]_vars

(* C9 witness: setUnderlyingType has failed on an alias whose underlying   *)
(* type was set.                                                           *)
C9_Witness ==
  /\ last.op = "setUnderlyingType"
  /\ last.fault
  /\ hasUnderlyingType(last.node)

(* The queries of C10 other than getType(), and their read-only step. *)
C10_OtherQueries ==
  \A n \in Nodes : last.node = n =>
    /\ (last.op = "hasType" /\ ~hasType(n)) => last.ret = FALSE
    /\ (last.op = "getSetter" /\ IsA(n, {DeclKind.Var}) /\ ~isProperty(n))
         => last.ret = Null
    /\ (last.op = "getSetter" /\ IsA(n, {DeclKind.Subscript})
         /\ ctor[n].Set = Null) => last.ret = Null
    /\ (last.op = "getGetterDecl"
         /\ (decl[n].GetOrSetDecl.Int \/ decl[n].GetOrSetDecl.Pointer = Null))
         => last.ret = Null
    /\ (last.op = "getSetterDecl"
         /\ (~decl[n].GetOrSetDecl.Int \/ decl[n].GetOrSetDecl.Pointer = Null))
         => last.ret = Null

C10_QueriesReadOnly ==
  last'.op \in {"hasType", "getType", "getGetter", "getSetter",
                "getGetterDecl", "getSetterDecl"}
    => (decl' = decl /\ nalloc' = nalloc)

(* C10, as stated: a query of an absent value is never a fault.  hasType() *)
(* is false and getType() returns an absent result on an unset type; a Var *)
(* without property record and a Subscript built without setter have no    *)
(* setter; a Func that is not a getter (setter) has no getter (setter)     *)
(* declaration; and no such query changes the state.                       *)
C10_AbsentNeverFaults ==
  /\ [](/\ C10_OtherQueries
        /\ \A n \in Nodes : (last.op = "getType" /\ last.node = n)
             => (~last.fault /\ (~hasType(n) => last.ret = Null)))
  /\ [][C10_QueriesReadOnly]_vars

(* C10, amended: getType() on an unset type is a contract violation: it    *)
(* aborts in a build with assertions and returns the null Type only in a   *)
(* build without them; on a set type it returns the type.  The other       *)
(* queries return absent as stated, and no query changes the node.         *)
C10_AbsentFaultsOnlyInGetType ==
  /\ [](/\ C10_OtherQueries
        /\ \A n \in Nodes : (last.op = "getType" /\ last.node = n)
             => IF hasType(n) THEN ~last.fault /\ last.ret = decl[n].Ty
                ELSE IF NDEBUG THEN ~last.fault /\ last.ret = Null
                ELSE last.fault)
  /\ [][C10_QueriesReadOnly]_vars

(* C10 witness: getType() has aborted on a node whose type is unset.       *)
C10_Witness ==
  /\ last.op = "getType"
  /\ last.fault
  /\ ~hasType(last.node)

---------------------------------------------------------------------------
(* The state part of C11, common to the claim as stated and as amended:   *)
(* the body is empty after construction, and getBody() never holds an     *)
(* expression and a statement at once.                                    *)
C11_State ==
  \A n \in Nodes : IsA(n, {DeclKind.TopLevelCode}) =>
    LET b == TopLevelCodeDecl_getBody(n)
    IN  /\ last.op = "ctor" => b = EmptyBody
        /\ ~((b.ptr # Null /\ ~b.isStmt) /\ (b.ptr # Null /\ b.isStmt))

(* The step part of C11 as stated, read for calls that pass a body (a    *)
(* non-null argument): a non-empty body stays non-empty and keeps its     *)
(* alternative.                                                           *)
C11_StepOneWay ==
  \A n \in Nodes : IsA(n, {DeclKind.TopLevelCode}) =>
    LET b == TopLevelCodeDecl_getBody(n)
        c == TopLevelCodeDecl_getBody(n)'
    IN  (b.ptr # Null /\ last'.arg # Null)
          => (c.ptr # Null /\ c.isStmt = b.isStmt)

(* C11, as stated: a TopLevelCode body is empty after construction, holds *)
(* at most one alternative, and once a setBody call has made it non-empty *)
(* no setBody(Expr)/setBody(Stmt) call empties it or changes which        *)
(* alternative is inhabited.                                              *)
C11_BodyAlternativeIsFixed == []C11_State /\ [][C11_StepOneWay]_vars

(* The step part of C11 as amended: only setBody changes the body, and    *)
(* each setBody call stores its argument under its own alternative,       *)
(* whatever the body held before.                                         *)
C11_StepLatestCall ==
  \A n \in Nodes : IsA(n, {DeclKind.TopLevelCode}) =>
    LET b == TopLevelCodeDecl_getBody(n)
        c == TopLevelCodeDecl_getBody(n)'
    IN  /\ c # b => (last'.op \in {"setBody(Expr)", "setBody(Stmt)"}
                      /\ last'.node = n)
        /\ (last'.op = "setBody(Expr)" /\ last'.node = n)
             => c = [isStmt |-> FALSE, ptr |-> last'.arg]
        /\ (last'.op = "setBody(Stmt)" /\ last'.node = n)
             => c = [isStmt |-> TRUE, ptr |-> last'.arg]

(* C11, amended: a TopLevelCode body is empty after construction and      *)
(* holds at most one alternative in every reachable state; only setBody   *)
(* changes it, and after any setBody call the body is the argument of     *)
(* that call under the alternative of that call: setBody(Stmt) replaces   *)
(* an expression body by a statement (and setBody(Expr) a statement body  *)
(* by an expression), and a null argument empties the body.               *)
C11_BodyFollowsLatestSetBody == []C11_State /\ [][C11_StepLatestCall]_vars

(* C11 witness: setBody(Stmt) has replaced an expression body by a        *)
(* statement.                                                             *)
C11_Witness ==
  /\ last.op = "setBody(Stmt)"
  /\ bodyBefore.ptr \in Exprs /\ ~bodyBefore.isStmt
  /\ TopLevelCodeDecl_getBody(last.node).ptr \in Stmts
  /\ TopLevelCodeDecl_getBody(last.node).isStmt

---------------------------------------------------------------------------
====
